---- MODULE Spec2Model ----
(***************************************************************************)
(* Model of monitor.ConfigurationStore (src/monitor/ConfigurationStore.go):*)
(* the loader NewConfigurationStore and the in-memory CRUD operations on   *)
(* the hosts and monitors maps, with the events handed to the Broadcaster. *)
(***************************************************************************)
EXTENDS Integers, Sequences, FiniteSets, TLC

VARIABLES
    loadPc,           \* position of NewConfigurationStore
    loadErr,          \* the error NewConfigurationStore returns
    cur,              \* the configuration record of the current loop iteration
    result,           \* what NewConfigurationStore returned: "none", "nil", "store"
    hosts,            \* s.hosts    : map[bson.ObjectId]Host
    monitors,         \* s.monitors : map[bson.ObjectId]Monitor
    objectIdCounter,  \* bson's process-wide ObjectId counter
    events,           \* everything passed to s.changes.Broadcast, in order
    settings,         \* the objects the loaded hosts' Transport fields point to
    pc,               \* per caller: position inside the running operation
    call,             \* per caller: the running operation and its arguments
    local,            \* per caller: the operation's local variables
    ret,              \* per caller: what the last finished operation returned
    bcasts,           \* per caller: Broadcast invocations of the running call
    busy,             \* callers inside a map write (runtime's hashWriting window)
    raced,            \* callers whose map write overlapped another map write
    fatal             \* the Go runtime threw "concurrent map ..." (process dead)

vars == <<loadPc, loadErr, cur, result, hosts, monitors, objectIdCounter,
          events, settings, pc, call, local, ret, bcasts, busy, raced, fatal>>

loadVars == <<loadPc, loadErr, cur, result>>
callVars == <<pc, call, local, ret, bcasts, busy, raced, fatal>>

(***************************************************************************)
(* Bounds of the model.                                                    *)
(***************************************************************************)
MaxObjectIds == 3      \* ObjectIds bson.NewObjectId hands out in one run
MaxMonitorRecs == 1    \* monitor records in the configuration snapshot
MaxEvents == 2         \* mutating calls (hence events) in one run
NumCallers == 2        \* goroutines calling into the store

Callers == 1..NumCallers

(***************************************************************************)
(* bson.ObjectId.  An ObjectId is 12 bytes, written as 24 hex characters.  *)
(* The model keeps the numeric value of the bytes; id strings are          *)
(* sequences of one-character strings.                                     *)
(***************************************************************************)
HexLen == 24
HexChars == <<"0", "1", "2", "3", "4", "5", "6", "7",
              "8", "9", "a", "b", "c", "d", "e", "f">>
HexDigits == {HexChars[k] : k \in 1..Len(HexChars)}
HexValue(c) == (CHOOSE k \in 1..Len(HexChars) : HexChars[k] = c) - 1

\* bson.IsObjectIdHex: exactly HexLen characters, all of them hex digits.
IsObjectIdHex(s) == Len(s) = HexLen /\ \A k \in 1..Len(s) : s[k] \in HexDigits

RECURSIVE HexDecode(_, _)
HexDecode(s, n) == IF n = 0 THEN 0 ELSE HexDecode(s, n - 1) * 16 + HexValue(s[n])

\* bson.ObjectIdHex(s): the value of s; it panics when s is not valid.
ObjectIdHex(s) == HexDecode(s, Len(s))

\* ObjectId.Hex(): the HexLen-character rendering of an id.
Hex(id) == [k \in 1..HexLen |->
              IF k = HexLen THEN HexChars[(id % 16) + 1]
              ELSE IF k = HexLen - 1 THEN HexChars[((id \div 16) % 16) + 1]
              ELSE "0"]

\* The literal of line 59.
LocalhostHex == [k \in 1..HexLen |-> "0"]
LocalhostId == ObjectIdHex(LocalhostHex)

\* bson.NewObjectId(): a value never handed out before (and never all-zero).
NewObjectId == objectIdCounter + 1

(***************************************************************************)
(* Plugin registries (plugins.GetTransports(), plugins.GetAgents()): maps  *)
(* from plugin identifier to the instance its constructor makes.           *)
(***************************************************************************)
GetTransports == [t \in {"ssh"} |-> "SshTransport"]
GetAgents == [a \in {"cpu"} |-> "CpuAgent"]
NilPlugin == "nil"

\* construct() on line 70 makes one object per host record and the decode of
\* line 71 fills it in; host.Transport (line 77) is an interface value that
\* points to it.  The object of a loaded host is named by the host's Id, and
\* its fields are either as decoded or changed since.
Decoded == "decoded"
Changed == "changed"

(***************************************************************************)
(* Entities.                                                               *)
(***************************************************************************)
DefaultInterval == 10
Host(id, name, transportId, transport) ==
    [Id |-> id, Name |-> name, TransportId |-> transportId, Transport |-> transport]
Monitor(id, hostId, interval, agent) ==
    [Id |-> id, HostId |-> hostId, Interval |-> interval, Agent |-> agent]

\* Go map operations on a function from keys to values.
MapPut(m, k, v) == [x \in DOMAIN m \cup {k} |-> IF x = k THEN v ELSE m[x]]
MapDelete(m, k) == [x \in DOMAIN m \ {k} |-> m[x]]
EmptyMap == [x \in {} |-> 0]

(***************************************************************************)
(* The configuration snapshot.  config.GetAllHosts() is a map from host    *)
(* name to raw record, config.GetAllMonitors() a collection of raw         *)
(* records; a raw record is described by what decoding it yields.          *)
(***************************************************************************)
HostNames == {"localhost", "web", "db"}
HostRecords ==
    [kind : {"host"}, name : HostNames, transport : {"ssh", "bogus"},
     baseOk : BOOLEAN, pluginOk : BOOLEAN]
MonitorRecords ==
    [kind : {"monitor"}, host : {"localhost", "ghost"}, agent : {"cpu", "bogus"},
     proxyOk : BOOLEAN, pluginOk : BOOLEAN, interval : {{}, {30}}]
NoRecord == [kind |-> "none"]

\* LoadHostId without the special case of lines 56-59.
LoadHostIdAlwaysNew(name) == NewObjectId

\* The id line 56-62 gives the host named name.
LoadHostId(name) == IF name = "localhost" THEN LocalhostId ELSE NewObjectId

\* HostsNamed without the comparison of line 165.
HostsNamedAny(name) == DOMAIN hosts

\* The ids of the hosts named name (GetHostByName returns the first the
\* map iteration meets).
HostsNamed(name) == {id \in DOMAIN hosts : hosts[id].Name = name}

\* The Interval of a monitor loaded from record rec (lines 92-94: the literal
\* default; the record is decoded into proxy and into the agent only).
LoadInterval(rec) == DefaultInterval

\* LoadFail handing out the store built so far together with the error.
LoadFailKeepsStore(err) ==
    /\ loadPc' = "done"
    /\ loadErr' = err
    /\ result' = "store"

\* return nil, err (lines 52, 67, 98, 102, 111).
LoadFail(err) ==
    /\ loadPc' = "failed"
    /\ loadErr' = err
    /\ result' = "nil"

\* One iteration of the loop of lines 47-81.
LoadHost ==
    /\ loadPc = "hosts"
    /\ \E rec \in HostRecords :
         /\ rec.name \notin {hosts[id].Name : id \in DOMAIN hosts}
         /\ rec.name # "localhost" => objectIdCounter < MaxObjectIds
         /\ cur' = rec
         /\ IF ~rec.baseOk
            THEN /\ LoadFail("DecodeError")
                 /\ UNCHANGED <<hosts, settings, objectIdCounter>>
            ELSE /\ objectIdCounter' = IF LoadHostId(rec.name) = NewObjectId
                                       THEN NewObjectId ELSE objectIdCounter
                 /\ IF rec.transport \notin DOMAIN GetTransports
                    THEN LoadFail("UnknownTransport") /\ UNCHANGED <<hosts, settings>>
                    ELSE IF ~rec.pluginOk
                    THEN /\ loadPc' = "panic"
                         /\ UNCHANGED <<loadErr, result, hosts, settings>>
                    ELSE /\ hosts' = MapPut(hosts, LoadHostId(rec.name),
                                        Host(LoadHostId(rec.name), rec.name, rec.transport,
                                             GetTransports[rec.transport]))
                         /\ settings' = MapPut(settings, LoadHostId(rec.name), Decoded)
                         /\ UNCHANGED <<loadPc, loadErr, result>>
    /\ UNCHANGED <<monitors, events>>
    /\ UNCHANGED callVars

\* The loop of lines 47-81 has visited every host record.
HostsLoaded ==
    /\ loadPc = "hosts"
    /\ loadPc' = "monitors"
    /\ cur' = NoRecord
    /\ UNCHANGED <<loadErr, result, hosts, monitors, objectIdCounter, events, settings>>
    /\ UNCHANGED callVars

\* One iteration of the loop of lines 86-123.
LoadMonitor ==
    /\ loadPc = "monitors"
    /\ Cardinality(DOMAIN monitors) < MaxMonitorRecs
    /\ objectIdCounter < MaxObjectIds
    /\ \E rec \in MonitorRecords :
         /\ cur' = rec
         /\ IF ~rec.proxyOk
            THEN /\ LoadFail("DecodeError")
                 /\ UNCHANGED <<monitors, objectIdCounter>>
            ELSE IF HostsNamed(rec.host) = {}
            THEN /\ LoadFail("HostNotFound")
                 /\ UNCHANGED <<monitors, objectIdCounter>>
            ELSE /\ objectIdCounter' = NewObjectId
                 /\ IF rec.agent \notin DOMAIN GetAgents
                    THEN LoadFail("UnknownAgent") /\ UNCHANGED monitors
                    ELSE IF ~rec.pluginOk
                    THEN /\ loadPc' = "panic"
                         /\ UNCHANGED <<loadErr, result, monitors>>
                    ELSE /\ \E hid \in HostsNamed(rec.host) :
                              monitors' = MapPut(monitors, NewObjectId,
                                            Monitor(NewObjectId, hid, LoadInterval(rec),
                                                    GetAgents[rec.agent]))
                         /\ UNCHANGED <<loadPc, loadErr, result>>
    /\ UNCHANGED <<hosts, events, settings>>
    /\ UNCHANGED callVars

\* Line 125: return s, nil.
LoadReturn ==
    /\ loadPc = "monitors"
    /\ loadPc' = "done"
    /\ result' = "store"
    /\ cur' = NoRecord
    /\ UNCHANGED <<loadErr, hosts, monitors, objectIdCounter, events, settings>>
    /\ UNCHANGED callVars

LoadNext == LoadHost \/ HostsLoaded \/ LoadMonitor \/ LoadReturn

NoCall == [op |-> "none"]
NoLocal == [found |-> FALSE]
NoRet == [err |-> "none"]

\* Lines 38-42: the store under construction, nothing loaded, no caller yet.
Init ==
    /\ loadPc = "hosts"
    /\ loadErr = "none"
    /\ cur = NoRecord
    /\ result = "none"
    /\ hosts = EmptyMap
    /\ monitors = EmptyMap
    /\ objectIdCounter = 0
    /\ events = <<>>
    /\ settings = EmptyMap
    /\ pc = [p \in Callers |-> "idle"]
    /\ call = [p \in Callers |-> NoCall]
    /\ local = [p \in Callers |-> NoLocal]
    /\ ret = [p \in Callers |-> NoRet]
    /\ bcasts = [p \in Callers |-> 0]
    /\ busy = {}
    /\ raced = {}
    /\ fatal = FALSE

(***************************************************************************)
(* Callers of the loaded store.  Arguments are drawn from small sets.      *)
(***************************************************************************)
MutatingOps == {"AddHost", "DeleteHost", "AddMonitor", "UpdateMonitor", "DeleteMonitor"}
ReadOps == {"GetAllHosts", "GetHost", "GetHostByName", "GetAllMonitors", "GetMonitor"}

\* Host values handed to AddHost; the caller may have set any field, Id included.
HostInputs ==
    {Host(LocalhostId, "localhost", "ssh", GetTransports["ssh"]),
     Host(1, "db", "bogus", NilPlugin)}
\* Monitor values handed to AddMonitor and to UpdateMonitor.
MonitorInputs == {Monitor(LocalhostId, LocalhostId, 30, GetAgents["cpu"])}
UpdateInputs == {Monitor(id, LocalhostId, 60, GetAgents["cpu"]) : id \in {1, MaxObjectIds}}
\* Id strings handed to the by-id operations: renderings of ids, and two
\* strings that are no ObjectId (empty; right length, no hex digit).
NotHex == [k \in 1..HexLen |-> "z"]
IdStrings == {Hex(id) : id \in {LocalhostId, 1, MaxObjectIds}} \cup {<<>>, NotHex}
NameInputs == {"localhost", "ghost"}

storeVars == <<hosts, monitors, objectIdCounter, events>>

Ready(p) == result = "store" /\ ~fatal /\ pc[p] = "idle"
At(p, label) == ~fatal /\ pc[p] = label
Goto(p, label) == pc' = [pc EXCEPT ![p] = label]
Begin(p, c) ==
    /\ call' = [call EXCEPT ![p] = c]
    /\ bcasts' = [bcasts EXCEPT ![p] = 0]
Returns(p, r) == ret' = [ret EXCEPT ![p] = r]
Keeps(p, v) == local' = [local EXCEPT ![p] = v]

\* Mutating calls under way.
Mutating == {q \in Callers : pc[q] \notin {"idle", "panic"} /\ call[q].op \in MutatingOps}
CanMutate == Len(events) + Cardinality(Mutating) < MaxEvents

\* s.changes.Broadcast(name, entity), from caller p.
Broadcast(p, name, entity) ==
    /\ events' = Append(events, [name |-> name, entity |-> entity])
    /\ bcasts' = [bcasts EXCEPT ![p] = @ + 1]

\* The maps are plain Go maps and no operation takes a lock.  A map write
\* is not atomic: the runtime marks the map as being written for the length
\* of the write.  An access that meets another caller's write is a data
\* race: the runtime may detect it and kill the process, or miss it.
Overlaps(p) == busy \ {p} # {}
MapRead(p) == fatal' \in (IF Overlaps(p) THEN BOOLEAN ELSE {fatal})
EnterWrite(p) ==
    /\ busy' = busy \cup {p}
    /\ raced' = IF Overlaps(p) THEN raced \cup busy \cup {p} ELSE raced
    /\ fatal' \in (IF Overlaps(p) THEN BOOLEAN ELSE {fatal})
LeaveWrite(p) ==
    /\ busy' = busy \ {p}
    /\ raced' = raced \ {p}
\* What the map holds after p's write: the written map, or, when the write
\* raced with another write, possibly the map without p's write.
Written(p, old, new) == IF p \in raced THEN {old, new} ELSE {new}

\* AssignId without the assignment: the Id the caller supplied is kept.
AssignIdKeepsCallerId(e) == e

\* Lines 144 and 203: the entity's Id is overwritten with a new ObjectId.
AssignId(e) == [e EXCEPT !.Id = NewObjectId]

(*************************** AddHost, lines 143-150 ************************)
AddHostCall(p) ==
    /\ Ready(p) /\ CanMutate /\ objectIdCounter < MaxObjectIds
    /\ \E h \in HostInputs : Begin(p, [op |-> "AddHost", host |-> AssignId(h)])
    /\ objectIdCounter' = NewObjectId
    /\ Goto(p, "AddHost145") /\ Returns(p, NoRet)
    /\ UNCHANGED <<loadVars, settings, hosts, monitors, events, local, busy, raced, fatal>>

AddHostWrite(p) ==
    /\ At(p, "AddHost145")
    /\ EnterWrite(p)
    /\ Goto(p, "AddHost145w")
    /\ UNCHANGED <<loadVars, settings, storeVars, call, local, ret, bcasts>>

AddHostStore(p) ==
    /\ At(p, "AddHost145w")
    /\ hosts' \in Written(p, hosts, MapPut(hosts, call[p].host.Id, call[p].host))
    /\ LeaveWrite(p)
    /\ Goto(p, "AddHost147")
    /\ UNCHANGED <<loadVars, settings, monitors, objectIdCounter, events, call, local, ret, bcasts, fatal>>

AddHostBroadcast(p) ==
    /\ At(p, "AddHost147")
    /\ Broadcast(p, "hostadd", call[p].host)
    /\ Goto(p, "idle") /\ Returns(p, [err |-> "nil"])
    /\ UNCHANGED <<loadVars, settings, hosts, monitors, objectIdCounter, call, local, busy, raced, fatal>>

(************************** DeleteHost, lines 174-185 **********************)
DeleteHostCall(p) ==
    /\ Ready(p)
    /\ \E id \in IdStrings :
         /\ Begin(p, [op |-> "DeleteHost", id |-> id])
         /\ IF ~IsObjectIdHex(id)
            THEN /\ Goto(p, "panic") /\ Returns(p, NoRet)
                 /\ UNCHANGED <<local, fatal>>
            ELSE /\ MapRead(p)
                 /\ IF ObjectIdHex(id) \notin DOMAIN hosts
                    THEN /\ Goto(p, "idle") /\ Returns(p, [err |-> "ErrHostNotFound"])
                         /\ UNCHANGED local
                    ELSE /\ CanMutate
                         /\ Goto(p, "DeleteHost180") /\ Returns(p, NoRet)
                         /\ Keeps(p, [found |-> TRUE, entity |-> hosts[ObjectIdHex(id)]])
    /\ UNCHANGED <<loadVars, settings, storeVars, busy, raced>>

DeleteHostWrite(p) ==
    /\ At(p, "DeleteHost180")
    /\ EnterWrite(p)
    /\ Goto(p, "DeleteHost180w")
    /\ UNCHANGED <<loadVars, settings, storeVars, call, local, ret, bcasts>>

\* DeleteHost cascading to the monitors of the removed host.
DeleteHostCascades(p) ==
    /\ At(p, "DeleteHost180w")
    /\ hosts' = MapDelete(hosts, ObjectIdHex(call[p].id))
    /\ monitors' = [m \in {k \in DOMAIN monitors :
                             monitors[k].HostId # ObjectIdHex(call[p].id)} |-> monitors[m]]
    /\ LeaveWrite(p)
    /\ Goto(p, "DeleteHost182")
    /\ UNCHANGED <<loadVars, settings, objectIdCounter, events, call, local, ret, bcasts, fatal>>

DeleteHostRemove(p) ==
    /\ At(p, "DeleteHost180w")
    /\ hosts' \in Written(p, hosts, MapDelete(hosts, ObjectIdHex(call[p].id)))
    /\ LeaveWrite(p)
    /\ Goto(p, "DeleteHost182")
    /\ UNCHANGED <<loadVars, settings, monitors, objectIdCounter, events, call, local, ret, bcasts, fatal>>

DeleteHostBroadcast(p) ==
    /\ At(p, "DeleteHost182")
    /\ Broadcast(p, "hostdelete", local[p].entity)
    /\ Goto(p, "idle") /\ Returns(p, [err |-> "nil"]) /\ Keeps(p, NoLocal)
    /\ UNCHANGED <<loadVars, settings, hosts, monitors, objectIdCounter, call, busy, raced, fatal>>

(************************** AddMonitor, lines 202-209 **********************)
AddMonitorCall(p) ==
    /\ Ready(p) /\ CanMutate /\ objectIdCounter < MaxObjectIds
    /\ \E m \in MonitorInputs : Begin(p, [op |-> "AddMonitor", mon |-> AssignId(m)])
    /\ objectIdCounter' = NewObjectId
    /\ Goto(p, "AddMonitor204") /\ Returns(p, NoRet)
    /\ UNCHANGED <<loadVars, settings, hosts, monitors, events, local, busy, raced, fatal>>

AddMonitorWrite(p) ==
    /\ At(p, "AddMonitor204")
    /\ EnterWrite(p)
    /\ Goto(p, "AddMonitor204w")
    /\ UNCHANGED <<loadVars, settings, storeVars, call, local, ret, bcasts>>

AddMonitorStore(p) ==
    /\ At(p, "AddMonitor204w")
    /\ monitors' \in Written(p, monitors, MapPut(monitors, call[p].mon.Id, call[p].mon))
    /\ LeaveWrite(p)
    /\ Goto(p, "AddMonitor206")
    /\ UNCHANGED <<loadVars, settings, hosts, objectIdCounter, events, call, local, ret, bcasts, fatal>>

AddMonitorBroadcast(p) ==
    /\ At(p, "AddMonitor206")
    /\ Broadcast(p, "monadd", call[p].mon)
    /\ Goto(p, "idle") /\ Returns(p, [err |-> "nil"])
    /\ UNCHANGED <<loadVars, settings, hosts, monitors, objectIdCounter, call, local, busy, raced, fatal>>

(************************ UpdateMonitor, lines 223-229 *********************)
UpdateMonitorCall(p) ==
    /\ Ready(p) /\ CanMutate
    /\ \E m \in UpdateInputs : Begin(p, [op |-> "UpdateMonitor", mon |-> m])
    /\ Goto(p, "UpdateMonitor224") /\ Returns(p, NoRet)
    /\ UNCHANGED <<loadVars, settings, storeVars, local, busy, raced, fatal>>

UpdateMonitorWrite(p) ==
    /\ At(p, "UpdateMonitor224")
    /\ EnterWrite(p)
    /\ Goto(p, "UpdateMonitor224w")
    /\ UNCHANGED <<loadVars, settings, storeVars, call, local, ret, bcasts>>

\* UpdateMonitor as a strict update: an Id that is not stored is left out.
UpdateMonitorStoreIfPresent(p) ==
    /\ At(p, "UpdateMonitor224w")
    /\ monitors' = IF call[p].mon.Id \in DOMAIN monitors
                   THEN MapPut(monitors, call[p].mon.Id, call[p].mon)
                   ELSE monitors
    /\ LeaveWrite(p)
    /\ Goto(p, "UpdateMonitor226")
    /\ UNCHANGED <<loadVars, settings, hosts, objectIdCounter, events, call, local, ret, bcasts, fatal>>

\* UpdateMonitor storing the monitor under its HostId instead of its Id.
UpdateMonitorStoreUnderHostId(p) ==
    /\ At(p, "UpdateMonitor224w")
    /\ monitors' = MapPut(monitors, call[p].mon.HostId, call[p].mon)
    /\ LeaveWrite(p)
    /\ Goto(p, "UpdateMonitor226")
    /\ UNCHANGED <<loadVars, settings, hosts, objectIdCounter, events, call, local, ret, bcasts, fatal>>

UpdateMonitorStore(p) ==
    /\ At(p, "UpdateMonitor224w")
    /\ monitors' \in Written(p, monitors, MapPut(monitors, call[p].mon.Id, call[p].mon))
    /\ LeaveWrite(p)
    /\ Goto(p, "UpdateMonitor226")
    /\ UNCHANGED <<loadVars, settings, hosts, objectIdCounter, events, call, local, ret, bcasts, fatal>>

UpdateMonitorBroadcast(p) ==
    /\ At(p, "UpdateMonitor226")
    /\ Broadcast(p, "monchange", call[p].mon)
    /\ Goto(p, "idle") /\ Returns(p, [err |-> "nil"])
    /\ UNCHANGED <<loadVars, settings, hosts, monitors, objectIdCounter, call, local, busy, raced, fatal>>

(************************ DeleteMonitor, lines 232-243 *********************)
DeleteMonitorCall(p) ==
    /\ Ready(p)
    /\ \E id \in IdStrings :
         /\ Begin(p, [op |-> "DeleteMonitor", id |-> id])
         /\ IF ~IsObjectIdHex(id)
            THEN /\ Goto(p, "panic") /\ Returns(p, NoRet)
                 /\ UNCHANGED <<local, fatal>>
            ELSE /\ MapRead(p)
                 /\ IF ObjectIdHex(id) \notin DOMAIN monitors
                    THEN /\ Goto(p, "idle") /\ Returns(p, [err |-> "ErrMonitorNotFound"])
                         /\ UNCHANGED local
                    ELSE /\ CanMutate
                         /\ Goto(p, "DeleteMonitor238") /\ Returns(p, NoRet)
                         /\ Keeps(p, [found |-> TRUE, entity |-> monitors[ObjectIdHex(id)]])
    /\ UNCHANGED <<loadVars, settings, storeVars, busy, raced>>

DeleteMonitorWrite(p) ==
    /\ At(p, "DeleteMonitor238")
    /\ EnterWrite(p)
    /\ Goto(p, "DeleteMonitor238w")
    /\ UNCHANGED <<loadVars, settings, storeVars, call, local, ret, bcasts>>

DeleteMonitorRemove(p) ==
    /\ At(p, "DeleteMonitor238w")
    /\ monitors' \in Written(p, monitors, MapDelete(monitors, ObjectIdHex(call[p].id)))
    /\ LeaveWrite(p)
    /\ Goto(p, "DeleteMonitor240")
    /\ UNCHANGED <<loadVars, settings, hosts, objectIdCounter, events, call, local, ret, bcasts, fatal>>

\* DeleteMonitorBroadcast without the call of line 240.
DeleteMonitorReturnsSilently(p) ==
    /\ At(p, "DeleteMonitor240")
    /\ Goto(p, "idle") /\ Returns(p, [err |-> "nil"]) /\ Keeps(p, NoLocal)
    /\ UNCHANGED <<loadVars, settings, storeVars, call, bcasts, busy, raced, fatal>>

DeleteMonitorBroadcast(p) ==
    /\ At(p, "DeleteMonitor240")
    /\ Broadcast(p, "mondelete", local[p].entity)
    /\ Goto(p, "idle") /\ Returns(p, [err |-> "nil"]) /\ Keeps(p, NoLocal)
    /\ UNCHANGED <<loadVars, settings, hosts, monitors, objectIdCounter, call, busy, raced, fatal>>

(************************* GetAllHosts, lines 129-140 **********************)
GetAllHostsCall(p) ==
    /\ Ready(p)
    /\ Begin(p, [op |-> "GetAllHosts"])
    /\ MapRead(p)
    /\ Keeps(p, [found |-> FALSE, l |-> Cardinality(DOMAIN hosts)])
    /\ Goto(p, "GetAllHosts133") /\ Returns(p, NoRet)
    /\ UNCHANGED <<loadVars, settings, storeVars, busy, raced>>

\* The range loop fills hosts[0..]; an index past l panics, slots never
\* reached keep the zero Host.
GetAllHostsRange(p) ==
    /\ At(p, "GetAllHosts133")
    /\ MapRead(p)
    /\ IF Cardinality(DOMAIN hosts) > local[p].l
       THEN Goto(p, "panic") /\ UNCHANGED <<ret, local>>
       ELSE /\ Goto(p, "idle") /\ Keeps(p, NoLocal)
            /\ Returns(p, [err |-> "nil", list |-> {hosts[id] : id \in DOMAIN hosts},
                           zeroed |-> local[p].l - Cardinality(DOMAIN hosts)])
    /\ UNCHANGED <<loadVars, settings, storeVars, call, bcasts, busy, raced>>

(*************************** GetHost, lines 153-160 ************************)
GetHost(p) ==
    /\ Ready(p)
    /\ \E id \in IdStrings :
         /\ Begin(p, [op |-> "GetHost", id |-> id])
         /\ IF ~IsObjectIdHex(id)
            THEN Goto(p, "panic") /\ Returns(p, NoRet) /\ UNCHANGED fatal
            ELSE /\ MapRead(p)
                 /\ UNCHANGED pc
                 /\ IF ObjectIdHex(id) \notin DOMAIN hosts
                    THEN Returns(p, [err |-> "ErrorInvalidId"])
                    ELSE Returns(p, [err |-> "nil", entity |-> hosts[ObjectIdHex(id)]])
    /\ UNCHANGED <<loadVars, settings, storeVars, local, busy, raced>>

(************************ GetHostByName, lines 163-171 *********************)
GetHostByName(p) ==
    /\ Ready(p)
    /\ \E name \in NameInputs :
         /\ Begin(p, [op |-> "GetHostByName", name |-> name])
         /\ MapRead(p)
         /\ IF HostsNamed(name) = {}
            THEN Returns(p, [err |-> "HostNotFound"])
            ELSE \E id \in HostsNamed(name) :
                    Returns(p, [err |-> "nil", entity |-> hosts[id]])
    /\ UNCHANGED <<loadVars, settings, storeVars, pc, local, busy, raced>>

(************************ GetAllMonitors, lines 188-199 ********************)
GetAllMonitorsCall(p) ==
    /\ Ready(p)
    /\ Begin(p, [op |-> "GetAllMonitors"])
    /\ MapRead(p)
    /\ Keeps(p, [found |-> FALSE, l |-> Cardinality(DOMAIN monitors)])
    /\ Goto(p, "GetAllMonitors192") /\ Returns(p, NoRet)
    /\ UNCHANGED <<loadVars, settings, storeVars, busy, raced>>

GetAllMonitorsRange(p) ==
    /\ At(p, "GetAllMonitors192")
    /\ MapRead(p)
    /\ IF Cardinality(DOMAIN monitors) > local[p].l
       THEN Goto(p, "panic") /\ UNCHANGED <<ret, local>>
       ELSE /\ Goto(p, "idle") /\ Keeps(p, NoLocal)
            /\ Returns(p, [err |-> "nil", list |-> {monitors[id] : id \in DOMAIN monitors},
                           zeroed |-> local[p].l - Cardinality(DOMAIN monitors)])
    /\ UNCHANGED <<loadVars, settings, storeVars, call, bcasts, busy, raced>>

(************************** GetMonitor, lines 212-220 **********************)
\* bson.ObjectIdHex(id) is evaluated inside the loop, once per monitor met.
GetMonitor(p) ==
    /\ Ready(p)
    /\ \E id \in IdStrings :
         /\ Begin(p, [op |-> "GetMonitor", id |-> id])
         /\ MapRead(p)
         /\ IF DOMAIN monitors = {}
            THEN Returns(p, [err |-> "ErrMonitorNotFound"]) /\ UNCHANGED pc
            ELSE IF ~IsObjectIdHex(id)
            THEN Goto(p, "panic") /\ Returns(p, NoRet)
            ELSE /\ UNCHANGED pc
                 /\ IF \E k \in DOMAIN monitors : monitors[k].Id = ObjectIdHex(id)
                    THEN \E k \in {x \in DOMAIN monitors : monitors[x].Id = ObjectIdHex(id)} :
                            Returns(p, [err |-> "nil", entity |-> monitors[k]])
                    ELSE Returns(p, [err |-> "ErrMonitorNotFound"])
    /\ UNCHANGED <<loadVars, settings, storeVars, local, busy, raced>>

\* The steps of the mutating operations.
Mutator(p) ==
    \/ AddHostCall(p) \/ AddHostWrite(p) \/ AddHostStore(p) \/ AddHostBroadcast(p)
    \/ DeleteHostCall(p) \/ DeleteHostWrite(p) \/ DeleteHostRemove(p)
    \/ DeleteHostBroadcast(p)
    \/ AddMonitorCall(p) \/ AddMonitorWrite(p) \/ AddMonitorStore(p)
    \/ AddMonitorBroadcast(p)
    \/ UpdateMonitorCall(p) \/ UpdateMonitorWrite(p) \/ UpdateMonitorStore(p)
    \/ UpdateMonitorBroadcast(p)
    \/ DeleteMonitorCall(p) \/ DeleteMonitorWrite(p) \/ DeleteMonitorRemove(p)
    \/ DeleteMonitorBroadcast(p)

\* The steps of the list operations.
Lister(p) ==
    \/ GetAllHostsCall(p) \/ GetAllHostsRange(p)
    \/ GetAllMonitorsCall(p) \/ GetAllMonitorsRange(p)

\* The single-step lookups.
Getter(p) == GetHost(p) \/ GetHostByName(p) \/ GetMonitor(p)

\* One caller at a time: the loader, then the operations called one after another.
Next == LoadNext \/ Mutator(1) \/ Lister(1) \/ Getter(1)
Spec == Init /\ [][Next]_vars

\* Several goroutines calling into a loaded store at once.  The store is the
\* one the loader returns for a snapshot with the host "localhost" and one
\* monitor on it.
LoadedHosts ==
    MapPut(EmptyMap, LocalhostId,
           Host(LocalhostId, "localhost", "ssh", GetTransports["ssh"]))
LoadedMonitors ==
    MapPut(EmptyMap, 1, Monitor(1, LocalhostId, DefaultInterval, GetAgents["cpu"]))
ConcInit ==
    /\ loadPc = "done"
    /\ loadErr = "none"
    /\ cur = NoRecord
    /\ result = "store"
    /\ hosts = LoadedHosts
    /\ monitors = LoadedMonitors
    /\ objectIdCounter = 1
    /\ events = <<>>
    /\ settings = MapPut(EmptyMap, LocalhostId, Decoded)
    /\ pc = [p \in Callers |-> "idle"]
    /\ call = [p \in Callers |-> NoCall]
    /\ local = [p \in Callers |-> NoLocal]
    /\ ret = [p \in Callers |-> NoRet]
    /\ bcasts = [p \in Callers |-> 0]
    /\ busy = {}
    /\ raced = {}
    /\ fatal = FALSE
ConcNext == \E p \in Callers : Mutator(p) \/ Lister(p)
ConcSpec == ConcInit /\ [][ConcNext]_vars

\* The loader alone.
LoadSpec == Init /\ [][LoadNext]_vars

\* What the caller of GetHostByName does with the *Host of line 166: it
\* writes a field of the Host it points to and a field of the object its
\* Transport points to.  &host is the address of the loop variable, a Host
\* of its own; its Transport is the interface value of the stored Host.
Renamed == "renamed"
MutateReturned(p) ==
    /\ pc[p] = "idle" /\ ~fatal
    /\ call[p].op = "GetHostByName" /\ ret[p].err = "nil"
    /\ ret[p].entity.Name # Renamed
    /\ ret' = [ret EXCEPT ![p].entity.Name = Renamed]
    /\ settings' = IF /\ ret[p].entity.Transport # NilPlugin
                      /\ ret[p].entity.Id \in DOMAIN settings
                   THEN [settings EXCEPT ![ret[p].entity.Id] = Changed]
                   ELSE settings
    /\ UNCHANGED <<loadVars, storeVars, pc, call, local, bcasts, busy, raced, fatal>>

\* A loaded store, looked up by name, and the caller writing to what it got.
CopyNext == LoadNext \/ GetHostByName(1) \/ MutateReturned(1)
CopySpec == Init /\ [][CopyNext]_vars

(***************************************************************************)
(* Properties.                                                             *)
(***************************************************************************)
UniqueHostIds == \A i, j \in DOMAIN hosts : hosts[i].Id = hosts[j].Id => i = j
Newest(log) == log[Len(log)]
\* p's step is the start of a call of op (a repeated call that changes
\* nothing is a stuttering step).
CallOf(p, op) ==
    /\ pc[p] = "idle" /\ call'[p].op = op
    /\ <<pc[p], call[p], ret[p]>>' # <<pc[p], call[p], ret[p]>>
\* No entry of map m is stored under the id string s.
NotAKey(s, m) == ~IsObjectIdHex(s) \/ ObjectIdHex(s) \notin DOMAIN m

\* The change of caller p's running mutation is in the collection.
Committed(p) ==
    CASE call[p].op = "AddHost" ->
           call[p].host.Id \in DOMAIN hosts /\ hosts[call[p].host.Id] = call[p].host
      [] call[p].op = "DeleteHost" -> ObjectIdHex(call[p].id) \notin DOMAIN hosts
      [] call[p].op \in {"AddMonitor", "UpdateMonitor"} ->
           call[p].mon.Id \in DOMAIN monitors /\ monitors[call[p].mon.Id] = call[p].mon
      [] call[p].op = "DeleteMonitor" -> ObjectIdHex(call[p].id) \notin DOMAIN monitors
      [] OTHER -> FALSE

C1_Returned ==
    \A p \in Callers :
        /\ pc[p] = "idle" /\ call[p].op \in MutatingOps /\ ret[p].err = "nil"
             => bcasts[p] = 1
        /\ call[p].op \in ReadOps => bcasts[p] = 0
C1_Step ==
    /\ \A p \in Callers :
         bcasts'[p] > bcasts[p] =>
            /\ bcasts'[p] = bcasts[p] + 1
            /\ call[p].op \in MutatingOps
            /\ Committed(p)
            /\ Len(events') = Len(events) + 1
            /\ SubSeq(events', 1, Len(events)) = events
    /\ events' # events => \E p \in Callers : bcasts'[p] > bcasts[p]

C2_Stored ==
    \A p \in Callers :
        pc[p] = "idle" /\ call[p].op = "AddHost" =>
            /\ bcasts[p] = 1
            /\ Newest(events) = [name |-> "hostadd", entity |-> call[p].host]
            /\ call[p].host.Id \in DOMAIN hosts
            /\ hosts[call[p].host.Id] = call[p].host
C2_Step ==
    \A p \in Callers :
        /\ CallOf(p, "AddHost") => call'[p].host.Id \notin DOMAIN hosts
        /\ pc[p] = "AddHost145w" /\ pc'[p] = "AddHost147" =>
              /\ call[p].host.Id \notin DOMAIN hosts
              /\ DOMAIN hosts' = DOMAIN hosts \cup {call[p].host.Id}
              /\ Cardinality(DOMAIN hosts') = Cardinality(DOMAIN hosts) + 1
              /\ \A id \in DOMAIN hosts : hosts'[id] = hosts[id]

\* C2: AddHost stores the host under a new id that is no key of the hosts
\* map, whatever Id the caller had set: every host already stored stays as
\* it was, the map grows by one entry, and the call broadcasts one "hostadd".
C2_AddHostNewId == [](C2_Stored) /\ [][C2_Step]_vars
C2_Witness ==
    /\ pc[1] = "idle" /\ call[1].op = "AddHost" /\ call[1].host.Name = "localhost"
    /\ LocalhostId \in DOMAIN hosts /\ call[1].host.Id # LocalhostId
    /\ Cardinality(DOMAIN hosts) >= 2

\* C3: DeleteHost with an id that is no key of the hosts map returns
\* ErrHostNotFound, broadcasts nothing and leaves the hosts map as it was.
C3_DeleteHostUnknownId ==
    [][\A p \in Callers :
          CallOf(p, "DeleteHost") /\ NotAKey(call'[p].id, hosts) =>
              /\ pc'[p] = "idle" /\ ret'[p].err = "ErrHostNotFound"
              /\ events' = events /\ hosts' = hosts]_vars

C4_Ids ==
    /\ \A id \in DOMAIN hosts :
          /\ hosts[id].Id = id
          /\ hosts[id].Name = "localhost" <=> id = LocalhostId
    /\ UniqueHostIds
C4_Step ==
    loadPc = "hosts" /\ hosts' # hosts =>
        /\ Cardinality(DOMAIN hosts') = Cardinality(DOMAIN hosts) + 1
        /\ \A id \in DOMAIN hosts : hosts'[id] = hosts[id]

\* C4: the loader gives the host named "localhost" the all-zero id and every
\* other host an id no other loaded host has: each loaded host record adds
\* one entry to the hosts map and overwrites none.
C4_LoadedHostIds == [](C4_Ids) /\ [][C4_Step]_vars
C4_Witness ==
    /\ result = "store" /\ Cardinality(DOMAIN hosts) = 3
    /\ hosts[LocalhostId].Name = "localhost"

\* C5: in every state of the store a host named "localhost" has the
\* all-zero id, and no two hosts have the same id.
C5_LocalhostAlwaysReserved ==
    /\ \A id \in DOMAIN hosts : hosts[id].Name = "localhost" => hosts[id].Id = LocalhostId
    /\ UniqueHostIds

NoHostNamed(name) == \A id \in DOMAIN hosts : hosts[id].Name # name
Added(old, new) == DOMAIN new \ DOMAIN old

C6_Failed ==
    /\ cur.kind = "host" /\ cur.transport \notin DOMAIN GetTransports =>
          /\ loadPc = "failed" /\ result = "nil"
          /\ loadErr = IF cur.baseOk THEN "UnknownTransport" ELSE "DecodeError"
    /\ result = "nil" =>
          /\ events = <<>>
          /\ \A p \in Callers : pc[p] = "idle" /\ call[p] = NoCall /\ ret[p] = NoRet

C7_Order ==
    /\ cur.kind = "monitor" \/ DOMAIN monitors # {} => loadPc # "hosts"
    /\ \A m \in DOMAIN monitors : monitors[m].HostId \in DOMAIN hosts
C7_Step ==
    /\ loadPc # "hosts" => hosts' = hosts
    /\ monitors' # monitors =>
          /\ Cardinality(Added(monitors, monitors')) = 1
          /\ \A m \in Added(monitors, monitors') :
                /\ monitors'[m].HostId \in DOMAIN hosts
                /\ hosts[monitors'[m].HostId].Name = cur'.host

C8_IntervalFromRecord ==
    [][loadPc = "monitors" /\ monitors' # monitors =>
          \A m \in Added(monitors, monitors') :
              monitors'[m].Interval = IF cur'.interval = {} THEN DefaultInterval
                                      ELSE CHOOSE v \in cur'.interval : TRUE]_vars

\* C9: when the callers run nothing but AddMonitor, at once, no call is
\* lost to a crash, and when all have returned every id handed out is the
\* key of a stored monitor and has had its "monadd".
C9_ConcurrentAddMonitor ==
    (/\ \A p \in Callers : call[p].op \in {"none", "AddMonitor"}
     /\ \A k \in 1..Len(events) : events[k].name = "monadd")
    => /\ ~fatal
       /\ (\A p \in Callers : pc[p] = "idle") =>
             /\ DOMAIN monitors = 1..objectIdCounter
             /\ {events[k].entity.Id : k \in 1..Len(events)} = 2..objectIdCounter
             /\ Len(events) = objectIdCounter - 1

\* C10: no two callers are inside a write of the collections at once.
WritePcs ==
    {"AddHost145w", "DeleteHost180w", "AddMonitor204w", "UpdateMonitor224w",
     "DeleteMonitor238w"}
C10_MutualExclusion ==
    \A p, q \in Callers : p # q => ~(pc[p] \in WritePcs /\ pc[q] \in WritePcs)

ListOps == {"GetAllHosts", "GetAllMonitors"}

\* C11: GetAllHosts and GetAllMonitors, run beside mutating calls, always
\* complete (no panic, no runtime abort) and return a list with no empty
\* slot: the collection as it was at one instant.
C11_ListsAreSnapshots ==
    \A p \in Callers :
        call[p].op \in ListOps =>
            /\ pc[p] # "panic"
            /\ ~fatal
            /\ pc[p] = "idle" /\ ret[p].err = "nil" => ret[p].zeroed = 0

\* Caller p writes to the Host that GetHostByName returned to it.
WritesReturned(p) ==
    /\ pc[p] = "idle" /\ call'[p] = call[p] /\ call[p].op = "GetHostByName"
    /\ ret[p].err = "nil" /\ ret'[p].err = "nil"
    /\ ret[p].entity.Name # Renamed /\ ret'[p].entity.Name = Renamed

\* C12: GetHostByName returns the not-found error when no stored host has
\* the name and otherwise a copy of a stored host of that name; whatever the
\* caller then writes to the returned value, its Transport's object
\* included, leaves the stored hosts and their Transport objects as they were.
C12_ReturnedHostIsACopy ==
    [][\A p \in Callers :
          /\ CallOf(p, "GetHostByName") /\ ~WritesReturned(p) =>
                IF NoHostNamed(call'[p].name)
                THEN ret'[p].err = "HostNotFound"
                ELSE /\ ret'[p].err = "nil"
                     /\ ret'[p].entity.Name = call'[p].name
                     /\ ret'[p].entity \in {hosts[id] : id \in DOMAIN hosts}
          /\ WritesReturned(p) =>
                /\ hosts' = hosts
                /\ \A id \in DOMAIN hosts : settings'[id] = settings[id]]_vars

\* C13: every host in the store has a Transport, the plugin registered
\* under its TransportId; no host with an unregistered TransportId is stored.
C13_HostsHaveTransport ==
    \A id \in DOMAIN hosts :
        /\ hosts[id].TransportId \in DOMAIN GetTransports
        /\ hosts[id].Transport # NilPlugin
        /\ hosts[id].Transport = GetTransports[hosts[id].TransportId]

ByIdOps == {"GetHost", "DeleteHost", "GetMonitor", "DeleteMonitor"}

\* C14: GetHost returns ErrorInvalidId, as an ordinary error that leaves the
\* store as it was, for a malformed id and for an id that is no key of
\* hosts; DeleteHost, GetMonitor and DeleteMonitor never panic either.
C14_InvalidIdIsAnError ==
    [][\A p \in Callers :
          /\ CallOf(p, "GetHost") /\ NotAKey(call'[p].id, hosts) =>
                /\ pc'[p] = "idle" /\ ret'[p].err = "ErrorInvalidId"
                /\ hosts' = hosts /\ monitors' = monitors /\ events' = events
          /\ call'[p].op \in ByIdOps => pc'[p] # "panic"]_vars

\* The plugin of record rec was found and decoding rec into it failed.
PluginDecodeFailed(rec) ==
    \/ /\ rec.kind = "host" /\ rec.baseOk /\ rec.transport \in DOMAIN GetTransports
       /\ ~rec.pluginOk
    \/ /\ rec.kind = "monitor" /\ rec.proxyOk /\ ~NoHostNamed(rec.host)
       /\ rec.agent \in DOMAIN GetAgents /\ ~rec.pluginOk

\* C15: when decoding a record into its constructed plugin fails, the load
\* returns an error and no store; it never panics.
C15_PluginDecodeErrorReturned ==
    /\ loadPc # "panic"
    /\ PluginDecodeFailed(cur) => loadPc = "failed" /\ result = "nil"

\* Caller p takes the step from label from to label to.
Steps(p, from, to) == pc[p] = from /\ pc'[p] = to
Size(m) == Cardinality(DOMAIN m)

\* C16: UpdateMonitor never fails; it stores the monitor under the monitor's
\* own Id (an entry replaced keeps the count, an absent Id adds one entry)
\* and broadcasts "monchange".  DeleteMonitor of an absent Id returns
\* ErrMonitorNotFound, changes nothing and broadcasts nothing.
C16_UpdateMonitorUpserts ==
    [][\A p \in Callers :
          /\ call'[p].op = "UpdateMonitor" =>
                pc'[p] # "panic" /\ ret'[p].err \in {"none", "nil"}
          /\ Steps(p, "UpdateMonitor224w", "UpdateMonitor226") =>
                /\ monitors' = MapPut(monitors, call[p].mon.Id, call[p].mon)
                /\ Size(monitors') =
                     Size(monitors) + (IF call[p].mon.Id \in DOMAIN monitors THEN 0 ELSE 1)
          /\ Steps(p, "UpdateMonitor226", "idle") =>
                /\ events' = Append(events, [name |-> "monchange", entity |-> call[p].mon])
                /\ ret'[p].err = "nil" /\ monitors[call[p].mon.Id] = call[p].mon
          /\ /\ CallOf(p, "DeleteMonitor") /\ IsObjectIdHex(call'[p].id)
             /\ ObjectIdHex(call'[p].id) \notin DOMAIN monitors
             => /\ pc'[p] = "idle" /\ ret'[p].err = "ErrMonitorNotFound"
                /\ UNCHANGED <<hosts, monitors, events>>]_vars

\* UpdateMonitor returned after creating the entry of an Id never handed out.
C16_Witness ==
    /\ pc[1] = "idle" /\ call[1].op = "UpdateMonitor" /\ ret[1].err = "nil"
    /\ call[1].mon.Id > objectIdCounter
    /\ call[1].mon.Id \in DOMAIN monitors
    /\ Newest(events) = [name |-> "monchange", entity |-> call[1].mon]

HostOps == {"AddHost", "DeleteHost", "GetAllHosts", "GetHost", "GetHostByName"}
MonitorOps == {"AddMonitor", "UpdateMonitor", "DeleteMonitor", "GetAllMonitors", "GetMonitor"}
\* The step is one of caller p.
StepOf(p) == <<pc[p], call[p], local[p], ret[p]>>' # <<pc[p], call[p], local[p], ret[p]>>

\* C17: DeleteHost of a stored id removes that host alone, leaves the
\* monitors as they were (those of the removed host included) and broadcasts
\* "hostdelete" with the host as stored just before the removal; no host
\* operation changes monitors and no monitor operation changes hosts.
C17_DeleteHostRemovesOneHost ==
    [][\A p \in Callers :
          /\ Steps(p, "DeleteHost180w", "DeleteHost182") =>
                /\ hosts' = MapDelete(hosts, ObjectIdHex(call[p].id))
                /\ \A id \in DOMAIN hosts \ {ObjectIdHex(call[p].id)} :
                      id \in DOMAIN hosts' /\ hosts'[id] = hosts[id]
                /\ monitors' = monitors
                /\ local[p].entity = hosts[ObjectIdHex(call[p].id)]
          /\ Steps(p, "DeleteHost182", "idle") =>
                events' = Append(events, [name |-> "hostdelete", entity |-> local[p].entity])
          /\ StepOf(p) /\ call'[p].op \in HostOps => monitors' = monitors
          /\ StepOf(p) /\ call'[p].op \in MonitorOps => hosts' = hosts]_vars

\* DeleteHost returned and a monitor of the removed host is still stored.
C17_Witness ==
    /\ pc[1] = "idle" /\ call[1].op = "DeleteHost" /\ ret[1].err = "nil"
    /\ ObjectIdHex(call[1].id) \notin DOMAIN hosts
    /\ \E m \in DOMAIN monitors : monitors[m].HostId = ObjectIdHex(call[1].id)
    /\ Newest(events).name = "hostdelete"

\* An entity with Id id is found by scanning m.
Scanned(id, m) == \E k \in DOMAIN m : m[k].Id = id

\* C18: every entry of hosts and of monitors is stored under its own Id, so
\* the lookup by key and the scan of the Id fields agree on every id.
C18_KeysAreIds ==
    /\ \A id \in DOMAIN hosts : hosts[id].Id = id
    /\ \A id \in DOMAIN monitors : monitors[id].Id = id
    /\ \A id \in 0..MaxObjectIds :
          /\ id \in DOMAIN hosts <=> Scanned(id, hosts)
          /\ id \in DOMAIN monitors <=> Scanned(id, monitors)

\* An added host and an upserted monitor are both stored.
C18_Witness ==
    \E i, j \in DOMAIN events :
        /\ events[i].name = "hostadd" /\ events[i].entity.Id \in DOMAIN hosts
        /\ events[j].name = "monchange" /\ events[j].entity.Id \in DOMAIN monitors
        /\ events[j].entity.Id # events[j].entity.HostId

\* What a subscriber holds after applying event e to its copy st of the store.
Apply(st, e) ==
    CASE e.name = "hostadd" ->
           [st EXCEPT !.hosts = MapPut(@, e.entity.Id, e.entity)]
      [] e.name = "hostdelete" ->
           [st EXCEPT !.hosts = MapDelete(@, e.entity.Id)]
      [] e.name \in {"monadd", "monchange"} ->
           [st EXCEPT !.monitors = MapPut(@, e.entity.Id, e.entity)]
      [] e.name = "mondelete" ->
           [st EXCEPT !.monitors = MapDelete(@, e.entity.Id)]

RECURSIVE Replay(_, _)
Replay(st, log) ==
    IF log = <<>> THEN st ELSE Replay(Apply(st, Head(log)), Tail(log))

\* C19: events are broadcast in the order of their commits, also between
\* concurrent callers: once every call has returned, replaying the events
\* over the loaded store gives the store's hosts and monitors.
C19_ReplayGivesStore ==
    (\A p \in Callers : pc[p] = "idle") /\ ~fatal =>
        Replay([hosts |-> LoadedHosts, monitors |-> LoadedMonitors], events)
            = [hosts |-> hosts, monitors |-> monitors]

====
